---- MODULE Spec2Model ----
(***************************************************************************)
(* A model of kuna_api.py: a KunaAPI client constructed with both keys,    *)
(* its request() pipeline                                                  *)
(* (argument defaulting, signed headers, the HTTP exchange, the response   *)
(* and error normalisation), the public methods that call it, the signing  *)
(* function _generate_signature and the APIError constructor.              *)
(*                                                                         *)
(* Python values are tagged records: None, int, str, dict (an ordered      *)
(* sequence of key/value items, as Python dicts keep insertion order) and  *)
(* list.  Text is a TLA+ string, except secret_key, which is a sequence of *)
(* code points so that str.encode('ascii') can be computed.                *)
(***************************************************************************)
EXTENDS Integers, Sequences, FiniteSets, TLC

VARIABLES
    access_key,   \* self.access_key
    secret_key,   \* self.secret_key, a sequence of code points
    clock,        \* the wall clock read by time.time(), in half milliseconds
    pc,           \* each caller's position inside request()
    frame,        \* each caller's locals of the running (or last) call
    nonceLog,     \* the nonces computed at line 153, in the order computed
    ncalls        \* how many calls were started

vars == <<access_key, secret_key, clock, pc, frame, nonceLog, ncalls>>

\* ------------------------------------------------------------- bounds
MaxCalls == 2
MaxClock == 3

\* ------------------------------------------------------ Python values
PyNone == [t |-> "None"]
PyInt(n) == [t |-> "int", v |-> n]
PyStr(s) == [t |-> "str", v |-> s]
PyList(xs) == [t |-> "list", items |-> xs]
PyDict(kvs) == [t |-> "dict", items |-> kvs]
Item(k, v) == [k |-> k, v |-> v]

\* bool(x) as Python evaluates it in `if x:` and `x and ...`
Truthy(x) ==
    CASE x.t = "None" -> FALSE
      [] x.t = "int"  -> x.v # 0
      [] x.t = "str"  -> x.v # ""
      [] x.t = "list" -> Len(x.items) > 0
      [] x.t = "dict" -> Len(x.items) > 0

DictKeys(d) == {d.items[i].k : i \in 1..Len(d.items)}

\* `k in d`
DictHas(d, k) == k \in DictKeys(d)

\* d[k] for a key that is present
DictAt(d, k) == d.items[CHOOSE i \in 1..Len(d.items) : d.items[i].k = k].v

\* d.get(k)
DictGet(d, k) == IF DictHas(d, k) THEN DictAt(d, k) ELSE PyNone

\* d[k] = v : an existing key keeps its place, a new key goes last
DictSet(d, k, v) ==
    IF DictHas(d, k)
    THEN PyDict([i \in 1..Len(d.items) |->
                    IF d.items[i].k = k THEN Item(k, v) ELSE d.items[i]])
    ELSE PyDict(Append(d.items, Item(k, v)))

\* sep.join(xs)
RECURSIVE Join(_, _)
Join(sep, xs) ==
    IF Len(xs) = 0 THEN ""
    ELSE IF Len(xs) = 1 THEN xs[1]
    ELSE xs[1] \o sep \o Join(sep, Tail(xs))

\* json.dumps(x) with the default separators (", " and ": ")
RECURSIVE JsonDumps(_)
JsonDumps(x) ==
    LET RECURSIVE Items(_)
        Items(kvs) ==
            IF Len(kvs) = 0 THEN ""
            ELSE "\"" \o kvs[1].k \o "\": " \o JsonDumps(kvs[1].v)
                 \o (IF Len(kvs) = 1 THEN "" ELSE ", " \o Items(Tail(kvs)))
        RECURSIVE Elems(_)
        Elems(xs) ==
            IF Len(xs) = 0 THEN ""
            ELSE JsonDumps(xs[1])
                 \o (IF Len(xs) = 1 THEN "" ELSE ", " \o Elems(Tail(xs)))
    IN  CASE x.t = "None" -> "null"
          [] x.t = "int"  -> ToString(x.v)
          [] x.t = "str"  -> "\"" \o x.v \o "\""
          [] x.t = "list" -> "[" \o Elems(x.items) \o "]"
          [] x.t = "dict" -> "{" \o Items(x.items) \o "}"

\* ----------------------------------------------------------- constants
API_VERSION == "3"
KUNA_API_URL_PREFIX == "v" \o API_VERSION
KUNA_API_BASEURL == "https://api.kuna.io/" \o KUNA_API_URL_PREFIX \o "/"

\* a success list that lets a server error through
SuccessCodes_With500 == {200, 201, 202, 500}

\* the status codes request() accepts (line 178)
SuccessCodes == {200, 201, 202}

\* --------------------------------------------------------------- APIError
\* APIError.__init__: result["error"]["message"] and result["error"].get("code")
\* when both subscripts succeed; any exception (a result that is no dict, no
\* "error" key, an error that is no dict, no "message" key) leaves message =
\* result and sets no code attribute.
StructuredError(result) ==
    /\ result.t = "dict"
    /\ DictHas(result, "error")
    /\ DictAt(result, "error").t = "dict"
    /\ DictHas(DictAt(result, "error"), "message")

\* a constructor that never extracts error.message and error.code
APIError_RawMessage(result) == [type |-> "APIError", message |-> result]

APIError(result) ==
    IF StructuredError(result)
    THEN [type |-> "APIError",
          message |-> DictAt(DictAt(result, "error"), "message"),
          code |-> DictGet(DictAt(result, "error"), "code")]
    ELSE [type |-> "APIError", message |-> result]

\* ---------------------------------------------------------------- signing
\* str.encode('ascii') of a sequence of code points
IsAscii(cps) == \A i \in 1..Len(cps) : cps[i] < 128

\* hmac.new(key, digestmod=sha384); update(msg); hexdigest(): the digest is
\* kept symbolic, one distinct value per (key, message) pair.
HmacSha384Hex(key, msg) ==
    "hmac-sha384-hex(" \o ToString(key) \o ", " \o msg \o ")"

\* The canonical message of _generate_signature (lines 191-193).
SignedBody(args) == JsonDumps(args)

\* the message joined with the separator the docstring of line 185 shows
CanonicalMessage_Separated(nonce, path, args) ==
    "/" \o KUNA_API_URL_PREFIX \o "/" \o path \o "|" \o nonce \o "|" \o SignedBody(args)

CanonicalMessage(nonce, path, args) ==
    LET body == SignedBody(args)
        uri == "/" \o KUNA_API_URL_PREFIX \o "/" \o path
    IN  uri \o nonce \o body

\* a signing function that encodes the key as UTF-8, which never fails
_generate_signature_utf8(key, nonce, path, args) ==
    [ok |-> TRUE, sig |-> HmacSha384Hex(key, CanonicalMessage(nonce, path, args)),
     body |-> SignedBody(args)]

\* _generate_signature(nonce, path, args) on a client whose secret_key is key:
\* the hex digest, or the exception raised.  The message is built before the
\* key is encoded; in this model paths, nonces and json.dumps output are ASCII,
\* so msg.encode('ascii') (line 198) succeeds.
_generate_signature(key, nonce, path, args) ==
    LET msg == CanonicalMessage(nonce, path, args)
    IN  IF ~IsAscii(key)
        THEN [ok |-> FALSE, exc |-> [type |-> "UnicodeEncodeError"]]
        ELSE [ok |-> TRUE, sig |-> HmacSha384Hex(key, msg),
              body |-> SignedBody(args)]

\* ---------------------------------------------------------- public methods
\* Each public method is a call of request(path, args, method, is_user_method).
Req(path, args, method, is_user_method) ==
    [path |-> path, args |-> args, method |-> method,
     is_user_method |-> is_user_method]

get_server_time == Req("timestamp", PyNone, "GET", FALSE)
get_currencies == Req("currencies", PyNone, "GET", FALSE)
get_markets == Req("markets", PyNone, "GET", FALSE)
get_fees == Req("fees", PyNone, "GET", FALSE)

get_recent_market_data(markets) ==
    Req("tickers", PyDict(<<Item("symbols", PyStr(Join(",", markets)))>>),
        "GET", FALSE)

get_order_book(symbol) == Req("book/" \o symbol, PyNone, "GET", FALSE)

get_account_info == Req("auth/me", PyNone, "POST", TRUE)
get_account_wallets == Req("auth/r/wallets", PyNone, "POST", TRUE)

get_account_orders(market) ==
    Req(IF Truthy(market) THEN "auth/r/orders/" \o market.v ELSE "auth/r/orders",
        PyNone, "POST", TRUE)

\* get_orders_history with `end` stored under its own key
OrdersHistoryArgs_EndKey(start, end, limit, sort) ==
    LET args0 == PyDict(<<Item("limit", limit), Item("sort", sort)>>)
        args1 == IF Truthy(start) THEN DictSet(args0, "start", start) ELSE args0
    IN  IF Truthy(end) THEN DictSet(args1, "end", end) ELSE args1

\* The args dict of get_orders_history (lines 118-127).
OrdersHistoryArgs(start, end, limit, sort) ==
    LET args0 == PyDict(<<Item("limit", limit), Item("sort", sort)>>)
        args1 == IF Truthy(start) THEN DictSet(args0, "start", start) ELSE args0
        args2 == IF Truthy(end) THEN DictSet(args1, "start", end) ELSE args1
    IN  args2

get_orders_history(market, start, end, limit, sort) ==
    Req(IF Truthy(market)
        THEN "auth/r/orders/" \o market.v \o "/hist"
        ELSE "auth/r/orders/hist",
        OrdersHistoryArgs(start, end, limit, sort), "POST", TRUE)

\* ------------------------------------------------------------- request()
Callers == {"t1", "t2"}

NoRequest == [sent |-> FALSE]
NoOutcome == [kind |-> "none"]
Return(value) == [kind |-> "return", value |-> value]
Raise(exc) == [kind |-> "raise", exc |-> exc]

IdleFrame ==
    [inv |-> [m |-> "none"], path |-> "", args |-> PyNone, method |-> "",
     is_user_method |-> FALSE, headers |-> PyDict(<<>>), signed_body |-> PyNone,
     http |-> NoRequest, transport_failed |-> FALSE,
     response |-> [received |-> FALSE],
     outcome |-> NoOutcome]

\* request() without the default for args
DefaultArgs_Keep(args) == args

\* lines 143-144: args defaults to an empty dict
DefaultArgs(args) == IF args = PyNone THEN PyDict(<<>>) ELSE args

\* int(time.time() * 1000): the clock counts units of 1/2000 s
NowMs == (clock * 1000) \div 2000

\* lines 150-153: the headers set before the signature is computed
AuthHeaders(nonce) ==
    LET h1 == DictSet(PyDict(<<>>), "accept", PyStr("application/json"))
        h2 == DictSet(h1, "content-type", PyStr("application/json"))
        h3 == DictSet(h2, "kun-apikey", PyStr(access_key))
    IN  DictSet(h3, "kun-nonce", PyStr(nonce))

\* a request that always sends args as the query string
HttpRequest_QueryAlways(f) ==
    [sent |-> TRUE, method |-> f.method, url |-> KUNA_API_BASEURL \o f.path,
     headers |-> f.headers, json |-> PyNone, params |-> f.args]

\* line 156: requests.request(method, url, json=args, headers=headers)
\* line 165: requests.request(method, url, headers=headers, params=args)
HttpRequest(f) ==
    [sent |-> TRUE, method |-> f.method, url |-> KUNA_API_BASEURL \o f.path,
     headers |-> f.headers,
     json |-> IF f.is_user_method THEN f.args ELSE PyNone,
     params |-> IF f.is_user_method THEN PyNone ELSE f.args]

\* The body the HTTP client transmits for json=<value>: none for None, else
\* the value's JSON text.
WireBody(req) == IF req.json = PyNone THEN PyNone ELSE PyStr(JsonDumps(req.json))

\* lines 170-172: the handler of requests.RequestException calls e.read(),
\* which no RequestException has, so the handler itself raises.
TransportHandler == Raise([type |-> "AttributeError"])

\* a normalisation that never looks at the status code
Normalise_IgnoreStatus(result, status_code, reason) ==
    IF Truthy(result) /\ result.t = "dict" /\ Truthy(DictGet(result, "error"))
    THEN Raise(APIError(result))
    ELSE Return(result)

\* lines 174-181 for a response whose body decoded to result
Normalise(result, status_code, reason) ==
    IF Truthy(result) /\ result.t = "dict" /\ Truthy(DictGet(result, "error"))
    THEN Raise(APIError(result))
    ELSE IF status_code \notin SuccessCodes
    THEN Raise(APIError(PyStr(reason)))
    ELSE Return(result)

\* response.json() fails on a body that is no JSON.  On the authenticated
\* path it is first called inside the try block (line 163), where the decode
\* error is caught when the HTTP library derives it from RequestException
\* (caught is TRUE) and propagates otherwise; line 174 is outside the try block.
HandleResponse(f, resp, caught) ==
    IF resp.body.t = "invalid"
    THEN IF f.is_user_method /\ caught
         THEN TransportHandler
         ELSE Raise([type |-> "JSONDecodeError"])
    ELSE Normalise(resp.body, resp.status_code, resp.reason)

\* A caller enters request() through a public method or directly.
Call(c, inv, r) ==
    /\ pc[c] \in {"idle", "done"}
    /\ ncalls < MaxCalls
    /\ ncalls' = ncalls + 1
    /\ frame' = [frame EXCEPT ![c] =
            [IdleFrame EXCEPT !.inv = inv, !.path = r.path,
                              !.args = DefaultArgs(r.args), !.method = r.method,
                              !.is_user_method = r.is_user_method]]
    /\ pc' = [pc EXCEPT ![c] = IF r.is_user_method THEN "auth" ELSE "send"]
    /\ UNCHANGED <<access_key, secret_key, clock, nonceLog>>

\* lines 150-154: the nonce is read from the clock and the headers are signed
Auth(c) ==
    /\ pc[c] = "auth"
    /\ LET f == frame[c]
           nonce == ToString(NowMs)
           hdrs == AuthHeaders(nonce)
           sig == _generate_signature(secret_key, DictAt(hdrs, "kun-nonce").v,
                                      f.path, f.args)
       IN  /\ nonceLog' = Append(nonceLog, NowMs)
           /\ IF sig.ok
              THEN /\ frame' = [frame EXCEPT
                        ![c].headers = DictSet(hdrs, "kun-signature", PyStr(sig.sig)),
                        ![c].signed_body = PyStr(sig.body)]
                   /\ pc' = [pc EXCEPT ![c] = "send"]
              ELSE /\ frame' = [frame EXCEPT ![c].headers = hdrs,
                                             ![c].outcome = Raise(sig.exc)]
                   /\ pc' = [pc EXCEPT ![c] = "done"]
    /\ UNCHANGED <<access_key, secret_key, clock, ncalls>>

\* lines 156 and 165: the HTTP request goes out
Send(c) ==
    /\ pc[c] = "send"
    /\ frame' = [frame EXCEPT ![c].http = HttpRequest(frame[c])]
    /\ pc' = [pc EXCEPT ![c] = "wait"]
    /\ UNCHANGED <<access_key, secret_key, clock, nonceLog, ncalls>>

\* requests raises a RequestException (connection error, timeout)
TransportFailure(c) ==
    /\ pc[c] = "wait"
    /\ frame' = [frame EXCEPT ![c].transport_failed = TRUE,
                               ![c].outcome = TransportHandler]
    /\ pc' = [pc EXCEPT ![c] = "done"]
    /\ UNCHANGED <<access_key, secret_key, clock, nonceLog, ncalls>>

\* a response arrives and is normalised
Receive(c, resp) ==
    /\ pc[c] = "wait"
    /\ \E caught \in BOOLEAN :
          frame' = [frame EXCEPT
              ![c].response = [received |-> TRUE, status_code |-> resp.status_code,
                               reason |-> resp.reason, body |-> resp.body],
              ![c].outcome = HandleResponse(frame[c], resp, caught)]
    /\ pc' = [pc EXCEPT ![c] = "done"]
    /\ UNCHANGED <<access_key, secret_key, clock, nonceLog, ncalls>>

\* wall-clock time passes
Tick ==
    /\ clock < MaxClock
    /\ clock' = clock + 1
    /\ UNCHANGED <<access_key, secret_key, pc, frame, nonceLog, ncalls>>

\* ----------------------------------------------------------------- inputs
\* What a caller invokes: a public method with its arguments, or request().
RequestOf(inv) ==
    CASE inv.m = "get_server_time" -> get_server_time
      [] inv.m = "get_currencies" -> get_currencies
      [] inv.m = "get_markets" -> get_markets
      [] inv.m = "get_fees" -> get_fees
      [] inv.m = "get_recent_market_data" -> get_recent_market_data(inv.markets)
      [] inv.m = "get_order_book" -> get_order_book(inv.symbol)
      [] inv.m = "get_account_info" -> get_account_info
      [] inv.m = "get_account_wallets" -> get_account_wallets
      [] inv.m = "get_account_orders" -> get_account_orders(inv.market)
      [] inv.m = "get_orders_history" ->
            get_orders_history(inv.market, inv.start, inv.end, inv.limit, inv.sort)
      [] inv.m = "request" ->
            Req(inv.path, inv.args, inv.method, inv.is_user_method)

MarketArgs == {PyNone, PyStr("btcuah")}
StartArgs == {PyNone, PyInt(0), PyInt(5)}
EndArgs == {PyNone, PyInt(0), PyInt(7)}

HistoryInvocations ==
    {[m |-> "get_orders_history", market |-> mk, start |-> st, end |-> en,
      limit |-> PyInt(25), sort |-> PyInt(1)] :
        mk \in MarketArgs, st \in StartArgs, en \in EndArgs}

DirectInvocations ==
    { [m |-> "request", path |-> "auth/w/order/submit",
       args |-> PyDict(<<Item("symbol", PyStr("btcuah")), Item("amount", PyInt(1))>>),
       method |-> "POST", is_user_method |-> TRUE],
      [m |-> "request", path |-> "auth/me", args |-> PyDict(<<>>),
       method |-> "POST", is_user_method |-> TRUE],
      [m |-> "request", path |-> "tickers",
       args |-> PyDict(<<Item("symbols", PyStr("ALL"))>>),
       method |-> "GET", is_user_method |-> FALSE],
      [m |-> "request", path |-> "timestamp", args |-> PyNone,
       method |-> "POST", is_user_method |-> FALSE] }

Invocations ==
    { [m |-> "get_server_time"], [m |-> "get_currencies"], [m |-> "get_markets"],
      [m |-> "get_fees"], [m |-> "get_account_info"], [m |-> "get_account_wallets"],
      [m |-> "get_order_book", symbol |-> "btcuah"],
      [m |-> "get_recent_market_data", markets |-> <<"btcuah">>],
      [m |-> "get_recent_market_data", markets |-> <<"btcuah", "ethuah">>] }
    \cup {[m |-> "get_account_orders", market |-> mk] : mk \in MarketArgs}
    \cup HistoryInvocations
    \cup DirectInvocations

\* the calls made by the concurrent callers
ConcurrentInvocations ==
    { [m |-> "get_server_time"], [m |-> "get_account_wallets"],
      [m |-> "get_orders_history", market |-> PyNone, start |-> PyInt(5),
       end |-> PyNone, limit |-> PyInt(25), sort |-> PyInt(1)] }

\* Responses of the server: a status line and a body.
StatusLines ==
    { [status_code |-> 200, reason |-> "OK"],
      [status_code |-> 201, reason |-> "Created"],
      [status_code |-> 202, reason |-> "Accepted"],
      [status_code |-> 404, reason |-> "Not Found"],
      [status_code |-> 500, reason |-> "Internal Server Error"] }

ErrorValues ==
    { PyNone, PyStr(""), PyStr("boom"), PyDict(<<>>),
      PyDict(<<Item("message", PyStr("Invalid nonce"))>>),
      PyDict(<<Item("message", PyStr("Invalid nonce")), Item("code", PyStr("40001"))>>),
      PyDict(<<Item("code", PyStr("40001"))>>) }

\* response bodies: text that is no JSON, null, a list, and mappings
Bodies ==
    { [t |-> "invalid"], PyNone, PyList(<<PyInt(1)>>), PyDict(<<>>),
      PyDict(<<Item("data", PyInt(1))>>) }
    \cup {PyDict(<<Item("error", e)>>) : e \in ErrorValues}

Responses ==
    {[status_code |-> sl.status_code, reason |-> sl.reason, body |-> b] :
        sl \in StatusLines, b \in Bodies}

ConcurrentResponses ==
    { [status_code |-> 200, reason |-> "OK", body |-> PyDict(<<Item("data", PyInt(1))>>)],
      [status_code |-> 500, reason |-> "Internal Server Error", body |-> [t |-> "invalid"]] }

\* secret keys, as code points: "test", "key", "tést" and "ключ"
SecretKeys ==
    { <<116, 101, 115, 116>>, <<107, 101, 121>>,
      <<116, 233, 115, 116>>, <<1082, 1083, 1102, 1095>> }

\* ------------------------------------------------------------ specification
Init ==
    /\ access_key = "ak"
    /\ secret_key \in SecretKeys
    /\ clock = 0
    /\ pc = [c \in Callers |-> "idle"]
    /\ frame = [c \in Callers |-> IdleFrame]
    /\ nonceLog = <<>>
    /\ ncalls = 0

\* one caller, every invocation, every response
Next ==
    \/ \E inv \in Invocations : Call("t1", inv, RequestOf(inv))
    \/ Auth("t1")
    \/ Send("t1")
    \/ TransportFailure("t1")
    \/ \E resp \in Responses : Receive("t1", resp)
    \/ Tick

Spec == Init /\ [][Next]_vars

\* callers running request() concurrently on one client
NextConc ==
    \/ \E c \in Callers : \E inv \in ConcurrentInvocations : Call(c, inv, RequestOf(inv))
    \/ \E c \in Callers : Auth(c)
    \/ \E c \in Callers : Send(c)
    \/ \E c \in Callers : TransportFailure(c)
    \/ \E c \in Callers : \E resp \in ConcurrentResponses : Receive(c, resp)
    \/ Tick

SpecConc == Init /\ [][NextConc]_vars

\* ------------------------------------------------------------------ claims
Received(c) == frame[c].response.received
Decoded(c) == Received(c) /\ frame[c].response.body.t # "invalid"
HasErrorKey(body) == body.t = "dict" /\ DictHas(body, "error")
HasTruthyError(body) == HasErrorKey(body) /\ Truthy(DictAt(body, "error"))
RaisedType(c) == IF frame[c].outcome.kind = "raise" THEN frame[c].outcome.exc.type ELSE "none"
SentAuth(c) == frame[c].http.sent /\ frame[c].is_user_method
SentPublic(c) == frame[c].http.sent /\ ~frame[c].is_user_method

\* C1 as stated: a decoded response is returned as the success value if and
\* only if its body has no `error` key and its status is 200, 201 or 202;
\* otherwise APIError is raised.
C1_SuccessIffNoErrorKey ==
    \A c \in Callers : Decoded(c) =>
        LET r == frame[c].response
        IN  IF ~HasErrorKey(r.body) /\ r.status_code \in {200, 201, 202}
            THEN frame[c].outcome = Return(r.body)
            ELSE RaisedType(c) = "APIError"

\* C1 amended: a decoded response is returned as the success value if and only
\* if its body is not a mapping with a truthy `error` value (an absent key,
\* null, "", 0, an empty mapping all count as no error) and its status is 200,
\* 201 or 202; otherwise APIError is raised and nothing is returned.
C1_SuccessIffNoTruthyError ==
    \A c \in Callers : Decoded(c) =>
        LET r == frame[c].response
        IN  IF ~HasTruthyError(r.body) /\ r.status_code \in {200, 201, 202}
            THEN frame[c].outcome = Return(r.body)
            ELSE RaisedType(c) = "APIError"

\* a body {"error": null} with status 200 came back and was returned
C1_Witness ==
    \E c \in Callers :
        /\ Decoded(c)
        /\ frame[c].response.status_code = 200
        /\ frame[c].response.body = PyDict(<<Item("error", PyNone)>>)
        /\ frame[c].outcome = Return(frame[c].response.body)

IsErrorWithMessage(body) ==
    /\ HasErrorKey(body)
    /\ DictAt(body, "error").t = "dict"
    /\ DictHas(DictAt(body, "error"), "message")

\* C2: a body whose `error` entry is a mapping with a `message` raises APIError
\* with message = error.message and code = error.code (None when the mapping
\* has no code), whatever the status code is.
C2_StructuredErrorWins ==
    \A c \in Callers : (Decoded(c) /\ IsErrorWithMessage(frame[c].response.body)) =>
        LET err == DictAt(frame[c].response.body, "error")
        IN  frame[c].outcome =
                Raise([type |-> "APIError", message |-> DictAt(err, "message"),
                       code |-> IF DictHas(err, "code") THEN DictAt(err, "code")
                                ELSE PyNone])

\* {"error": {"message": "Invalid nonce", "code": "40001"}} with status 200
\* raised APIError("Invalid nonce", "40001")
C2_Witness ==
    \E c \in Callers :
        /\ Decoded(c)
        /\ frame[c].response.status_code = 200
        /\ frame[c].response.body =
              PyDict(<<Item("error", PyDict(<<Item("message", PyStr("Invalid nonce")),
                                               Item("code", PyStr("40001"))>>))>>)
        /\ frame[c].outcome =
              Raise([type |-> "APIError", message |-> PyStr("Invalid nonce"),
                     code |-> PyStr("40001")])

\* C3: a decoded body without an `error` key and a status other than 200, 201,
\* 202 raises APIError whose message is the reason phrase of the response.
C3_StatusErrorUsesReason ==
    \A c \in Callers :
        (Decoded(c) /\ ~HasErrorKey(frame[c].response.body)
                    /\ frame[c].response.status_code \notin {200, 201, 202}) =>
            /\ RaisedType(c) = "APIError"
            /\ frame[c].outcome.exc.message = PyStr(frame[c].response.reason)

\* status 500 with the body {"data": 1} raised APIError("Internal Server Error")
C3_Witness ==
    \E c \in Callers :
        /\ Decoded(c)
        /\ frame[c].response.status_code = 500
        /\ frame[c].response.body = PyDict(<<Item("data", PyInt(1))>>)
        /\ frame[c].outcome =
              Raise([type |-> "APIError", message |-> PyStr("Internal Server Error")])

\* C4: every finished call of request() returned a decoded payload or raised
\* one of the library's error kinds (TransportError, APIError, the encoding
\* error), and a call whose HTTP exchange raised a transport failure raised the
\* transport or API error.
C4_OnlyLibraryErrors ==
    \A c \in Callers : pc[c] = "done" =>
        /\ \/ frame[c].outcome.kind = "return"
           \/ RaisedType(c) \in {"TransportError", "APIError", "UnicodeEncodeError"}
        /\ frame[c].transport_failed =>
              RaisedType(c) \in {"TransportError", "APIError"}

\* C5: no two authenticated requests of the callers carry the same nonce, and
\* the nonces are non-decreasing in the order they were generated.
C5_NoncesNeverReused ==
    /\ \A c1, c2 \in Callers :
          (c1 # c2 /\ SentAuth(c1) /\ SentAuth(c2)) =>
              DictAt(frame[c1].http.headers, "kun-nonce")
                  # DictAt(frame[c2].http.headers, "kun-nonce")
    /\ \A i, j \in 1..Len(nonceLog) : i < j => nonceLog[i] <= nonceLog[j]

\* C6: with a non-ASCII secret_key an authenticated call never gets past
\* signing: no HTTP request is ever sent for it, and it ends by raising the
\* encoding error, not the error of the transport handler.
C6_EncodingErrorBeforeNetwork ==
    \A c \in Callers : (frame[c].is_user_method /\ \E i \in 1..Len(secret_key) : secret_key[i] >= 128) =>
        /\ ~frame[c].http.sent
        /\ pc[c] \in {"auth", "done"}
        /\ pc[c] = "done" => frame[c].outcome = Raise([type |-> "UnicodeEncodeError"])

\* an authenticated call under the key "tést" ended with the encoding error
C6_Witness ==
    \E c \in Callers :
        /\ secret_key = <<116, 233, 115, 116>>
        /\ frame[c].is_user_method
        /\ pc[c] = "done"
        /\ RaisedType(c) = "UnicodeEncodeError"
        /\ ~frame[c].http.sent

NoParams(inv) == RequestOf(inv).args \in {PyNone, PyDict(<<>>)}

\* C8: for every authenticated request the JSON text that was signed is the
\* JSON text transmitted as the body, both made from the params the caller
\* gave, and absent or empty params are "{}" in both.
C8_SignedBodyIsSentBody ==
    \A c \in Callers : SentAuth(c) =>
        /\ WireBody(frame[c].http) = frame[c].signed_body
        /\ frame[c].http.json = frame[c].args
        /\ ~NoParams(frame[c].inv) => frame[c].http.json = RequestOf(frame[c].inv).args
        /\ NoParams(frame[c].inv) =>
              /\ frame[c].signed_body = PyStr("{}")
              /\ WireBody(frame[c].http) = PyStr("{}")

\* get_account_info(), which passes no params, was signed and sent with "{}"
C8_Witness ==
    \E c \in Callers :
        /\ SentAuth(c)
        /\ frame[c].inv.m = "get_account_info"
        /\ RequestOf(frame[c].inv).args = PyNone
        /\ frame[c].signed_body = PyStr("{}")
        /\ WireBody(frame[c].http) = PyStr("{}")

PublicDispatch(c) ==
    SentPublic(c) =>
        /\ frame[c].http.headers = PyDict(<<>>)
        /\ frame[c].http.json = PyNone
        /\ frame[c].http.params = DefaultArgs(RequestOf(frame[c].inv).args)
        /\ frame[c].http.method = RequestOf(frame[c].inv).method

AuthDispatch(c, apikey, nonce, signature) ==
    SentAuth(c) =>
        /\ DictKeys(frame[c].http.headers) =
              {"accept", "content-type", apikey, nonce, signature}
        /\ Len(frame[c].http.headers.items) = 5
        /\ DictAt(frame[c].http.headers, apikey) = PyStr(access_key)
        /\ frame[c].http.json = DefaultArgs(RequestOf(frame[c].inv).args)
        /\ frame[c].http.params = PyNone
        /\ frame[c].http.method = RequestOf(frame[c].inv).method

\* C9 as stated: an authenticated request carries exactly the headers accept,
\* content-type, api-key, nonce and signature, with params as the JSON body;
\* an unauthenticated one carries no headers and params as the query string.
C9_HeadersAsNamed ==
    \A c \in Callers : AuthDispatch(c, "api-key", "nonce", "signature") /\ PublicDispatch(c)

\* C9 amended: the five headers are accept, content-type, kun-apikey (equal to
\* access_key), kun-nonce and kun-signature; the rest as stated.
C9_HeadersAsSent ==
    \A c \in Callers : AuthDispatch(c, "kun-apikey", "kun-nonce", "kun-signature")
                       /\ PublicDispatch(c)

\* an authenticated request with params went out with kun-apikey = access_key
C9_Witness ==
    \E c \in Callers :
        /\ SentAuth(c)
        /\ frame[c].inv.m = "request"
        /\ Truthy(frame[c].http.json)
        /\ DictGet(frame[c].http.headers, "kun-apikey") = PyStr(access_key)

IsHistory(c) == frame[c].http.sent /\ frame[c].inv.m = "get_orders_history"
Supplied(x) == x # PyNone

\* C10 as stated: whenever end is supplied the request's `start` is end and
\* there is no `end` parameter; when only start is supplied `start` is start;
\* limit and sort are always present.
C10_EndOverwritesStart ==
    \A c \in Callers : IsHistory(c) =>
        LET inv == frame[c].inv
            params == frame[c].http.json
        IN  /\ Supplied(inv.end) =>
                  /\ DictHas(params, "start")
                  /\ DictAt(params, "start") = inv.end
            /\ ~DictHas(params, "end")
            /\ (Supplied(inv.start) /\ ~Supplied(inv.end)) =>
                  /\ DictHas(params, "start")
                  /\ DictAt(params, "start") = inv.start
            /\ {"limit", "sort"} \subseteq DictKeys(params)

\* C10 amended: whenever end is supplied and not zero the request's `start` is
\* end and there is never an `end` parameter; when start is supplied and not
\* zero and end is absent or zero, `start` is start; limit and sort are always
\* present with the values given.
C10_TruthyEndOverwritesStart ==
    \A c \in Callers : IsHistory(c) =>
        LET inv == frame[c].inv
            params == frame[c].http.json
        IN  /\ Truthy(inv.end) =>
                  /\ DictHas(params, "start")
                  /\ DictAt(params, "start") = inv.end
            /\ ~DictHas(params, "end")
            /\ (Truthy(inv.start) /\ ~Truthy(inv.end)) =>
                  /\ DictHas(params, "start")
                  /\ DictAt(params, "start") = inv.start
            /\ DictGet(params, "limit") = inv.limit
            /\ DictGet(params, "sort") = inv.sort

\* get_orders_history(start=5, end=7) went out with start = 7
C10_Witness ==
    \E c \in Callers :
        /\ IsHistory(c)
        /\ frame[c].inv.start = PyInt(5)
        /\ frame[c].inv.end = PyInt(7)
        /\ frame[c].http.json =
              PyDict(<<Item("limit", PyInt(25)), Item("sort", PyInt(1)),
                       Item("start", PyInt(7))>>)

====
